---- MODULE Spec2Model ----
(***************************************************************************)
(* Model of src/src/App.jsx, the React front end of the gesture detector.  *)
(* The file holds three revisions of the component:                        *)
(*   "resched"  (lines 1-728)    live loop that reschedules itself, with   *)
(*                               background subtraction and image upload   *)
(*   "xray"     (lines 730-969)  chest X-ray upload only                   *)
(*   "interval" (lines 971-1460) live loop driven by setInterval, upload   *)
(* The variable `variant` selects the revision a behaviour runs.           *)
(***************************************************************************)
EXTENDS Integers, Sequences, FiniteSets, TLC

\* ------------------------------------------------------------ bounds
MaxFiles == 2
MaxUploads == 2
MaxGum == 1
MaxTimers == 2
MaxCycles == 2

\* ------------------------------------------------------------ program constants
BACKGROUND_THRESHOLD == 30
EDGE_GRADIENT_THRESHOLD == 20
MIN_DETECTION_INTERVAL == 3000
PROCESSING_BUFFER == 500
INITIAL_DELAY == 1000
RESCHEDULE_DELAY == 100

VARIABLES
  variant,                 \* which revision of App.jsx runs
  mode,                    \* useState 'select' | 'live' | 'image'
  detections,              \* useState: the value last given to setDetections
  error,                   \* useState: the error message, or "null"
  imagePreview,            \* useState: 0 (null) or the file whose data URL is shown
  isLoading,               \* useState
  cameraActive,            \* useState
  lastProcessTime,         \* useState
  isProcessing,            \* useState
  backgroundCaptured,      \* useState
  showPreprocessing,       \* useState
  preprocessedFrame,       \* useState: "null" or "mask"
  backgroundRef,           \* useRef: "null" or "frame"
  processingRef,           \* useRef: the in-flight guard
  continuousDetectionRef,  \* useRef: the continuation flag
  streamRef,               \* useRef: "null" or "stream"
  tracksLive,              \* the tracks of the stream streamRef holds, or held last, are running
  intervalRef,             \* useRef: "null", "live" (a running interval) or "dead" (a cleared one)
  gumPending,              \* getUserMedia calls not yet settled
  liveCycles,              \* capture cycles past the guard: each "blob" (awaiting toBlob) or "fetch" (awaiting the response)
  initTimeout,             \* the effect's 1000 ms timeout is pending
  reschedTimers,           \* pending 100 ms timeouts set by captureAndDetect's finally
  committed,               \* the detection effect's dependencies at its last run
  effCleanup,              \* the detection effect's last run returned a cleanup
  uploads,                 \* handleImageUpload calls in flight: [file, phase]
  readers,                 \* files whose FileReader has not fired onload yet
  last,                    \* history: what the last step did, when it was a call of captureAndDetect
                           \* ("returned", "waiting", "started"), a response ("live:ok", "live:failed",
                           \* "upload:ok", "upload:failed") or a file selection ("upload:start"); else "none"
  maskFrame,               \* applyBackgroundSubtraction: the frame on the canvas, as RGBA bytes
  maskBackground,          \* backgroundData.data
  maskCurrent,             \* currentData.data, rewritten in place
  maskI,                   \* the loop index i
  maskDone,                \* putImageData has run
  edge,                    \* processImageToBWMask: its locals, as one record
  overlay,                 \* renderBoundingBoxes: the list it maps and what it returned
  crop,                    \* the drawImage that fills the 640x640 canvas, and what follows it
  timeline,                \* the interval revision's timers on a clock, in ms
  loop,                    \* the self-rescheduling revision's timers on a clock, in ms
  camera                   \* the camera streams obtained by startCamera, one by one

maskVars == <<maskFrame, maskBackground, maskCurrent, maskI, maskDone>>

fnVars == <<edge, overlay, crop, timeline, loop, camera>>

vars == <<maskVars, fnVars, variant, mode, detections, error, imagePreview, isLoading, cameraActive,
          lastProcessTime, isProcessing, backgroundCaptured, showPreprocessing,
          preprocessedFrame, backgroundRef, processingRef, continuousDetectionRef,
          streamRef, tracksLive, intervalRef, gumPending, liveCycles, initTimeout, reschedTimers,
          committed, effCleanup, uploads, readers, last>>

\* ------------------------------------------------------------ values
Variants == {"resched", "xray", "interval"}
LiveVariants == {"resched", "interval"}
Files == 1..MaxFiles

\* A JavaScript value that can sit in `result.detections`: an array (len 0
\* or more; src names the frame or file it was computed from, 0 = a camera
\* frame), undefined (the field is absent), null, or a non-empty string.
JsArray(n, s) == [ty |-> "array", len |-> n, src |-> s]
EmptyList == JsArray(0, 0)
ArrayOf(s) == JsArray(1, s)
Undefined == [ty |-> "undefined", len |-> 0, src |-> 0]
JsNull == [ty |-> "null", len |-> 0, src |-> 0]
JsString == [ty |-> "string", len |-> 1, src |-> 0]

Truthy(v) == v.ty \in {"array", "string"}
IsList(v) == v.ty = "array"

\* result.detections || []
OrEmpty(v) == IF Truthy(v) THEN v ELSE EmptyList

\* What a 2xx body may carry in its `detections` field for source s.
Payloads(s) == {ArrayOf(s), EmptyList, Undefined, JsNull, JsString}

\* How a request can fail, and the message of the exception thrown.
Failures == {"http", "network", "parse"}
ErrMessage(k) ==
  CASE k = "http" -> "Detection failed"
    [] k = "network" -> "Failed to fetch"
    [] k = "parse" -> "Unexpected token"
CameraDenied == "Camera access denied. Please allow camera permissions."
\* err.message of the Event an <img> onerror rejects with
NoMessage == "undefined"

\* Date.now() - startTime of a finished request, in ms.
ProcessTimes == {800, 4200}


RemoveAt(s, i) == [j \in 1..(Len(s) - 1) |-> IF j < i THEN s[j] ELSE s[j + 1]]


\* ------------------------------------------------------------ initial state
\* The state after the component mounted: the mode effect ran stopCamera()
\* once (mode is 'select'), the detection effect found nothing to set up.
\* The X-ray revision has no mode: it always shows the upload page.
Mounted ==
  /\ mode = IF variant = "xray" THEN "image" ELSE "select"
  /\ detections = EmptyList
  /\ error = "null"
  /\ imagePreview = 0
  /\ isLoading = FALSE
  /\ cameraActive = FALSE
  /\ lastProcessTime = 0
  /\ isProcessing = FALSE
  /\ backgroundCaptured = FALSE
  /\ showPreprocessing = FALSE
  /\ preprocessedFrame = "null"
  /\ backgroundRef = "null"
  /\ processingRef = FALSE
  /\ continuousDetectionRef = FALSE
  /\ streamRef = "null"
  /\ tracksLive = FALSE
  /\ intervalRef = "null"
  /\ gumPending = 0
  /\ liveCycles = <<>>
  /\ initTimeout = FALSE
  /\ reschedTimers = 0
  /\ committed = [cam |-> FALSE, lpt |-> 0]
  /\ effCleanup = FALSE
  /\ uploads = <<>>
  /\ readers = {}
  /\ last = "none"

\* applyBackgroundSubtraction has not been entered.
MaskIdle ==
  /\ maskFrame = <<>>
  /\ maskBackground = <<>>
  /\ maskCurrent = <<>>
  /\ maskI = 0
  /\ maskDone = FALSE

\* processImageToBWMask, renderBoundingBoxes and the canvas fill have not
\* been entered.
EdgeIdle ==
  edge = [width |-> 0, height |-> 0, input |-> <<>>, data |-> <<>>,
          grayscale |-> <<>>, x |-> 0, y |-> 0, stage |-> "idle"]
OverlayIdle ==
  overlay = [detections |-> <<>>, rendered |-> <<>>, stage |-> "idle"]
CropIdle ==
  crop = [source |-> "none", width |-> 0, height |-> 0, rect |-> <<>>,
          painted |-> FALSE, stage |-> "idle"]
\* The clock of the interval revision is not running.
TimelineIdle ==
  timeline = [timeout |-> -1, interval |-> -1, period |-> 0, request |-> -1,
              elapsed |-> 0, lastProcessTime |-> 0, sinceStart |-> -1, gap |-> -1]
\* The clock of the self-rescheduling revision is not running.
LoopIdle ==
  loop = [timeout |-> -1, resched |-> {}, request |-> -1, background |-> FALSE,
          cont |-> FALSE, sinceResolved |-> -1, wait |-> -1]
\* The camera streams are not being followed.
CameraIdle ==
  camera = [mode |-> "none", pending |-> 0, obtained |-> 0, streamRef |-> 0,
            running |-> {}]

Init ==
  /\ variant \in Variants
  /\ Mounted
  /\ MaskIdle
  /\ EdgeIdle /\ OverlayIdle /\ CropIdle /\ TimelineIdle /\ LoopIdle /\ CameraIdle

\* ------------------------------------------------------------ effects
\* The part of the state that stopCamera, startCamera and the detection
\* effect read and write, as one record, so that a commit (cleanups, then
\* effect bodies, then the re-render they cause) is a composition.
Session ==
  [cont |-> continuousDetectionRef, stream |-> streamRef, tracks |-> tracksLive, bg |-> backgroundRef,
   bgCap |-> backgroundCaptured, cam |-> cameraActive, dets |-> detections,
   ivl |-> intervalRef, tmo |-> initTimeout, cleanup |-> effCleanup,
   gum |-> gumPending]

SetSession(s) ==
  /\ continuousDetectionRef' = s.cont
  /\ streamRef' = s.stream
  /\ tracksLive' = s.tracks
  /\ backgroundRef' = s.bg
  /\ backgroundCaptured' = s.bgCap
  /\ cameraActive' = s.cam
  /\ detections' = s.dets
  /\ intervalRef' = s.ivl
  /\ initTimeout' = s.tmo
  /\ effCleanup' = s.cleanup
  /\ gumPending' = s.gum

\* stopCamera
StopCameraKeepsBackground(v, s) ==
  [s EXCEPT !.cont = FALSE,
            !.tracks = IF s.stream = "null" THEN @ ELSE FALSE,
            !.stream = "null",
            !.ivl = "null",
            !.cam = FALSE,
            !.dets = EmptyList]
StopCameraKeepsFlag(v, s) ==
  [s EXCEPT !.cont = FALSE,
            !.tracks = IF s.stream = "null" THEN @ ELSE FALSE,
            !.stream = "null",
            !.bg = "null",
            !.ivl = "null",
            !.cam = FALSE,
            !.dets = EmptyList]
StopCamera(v, s) ==
  IF v = "resched"
  THEN [s EXCEPT !.cont = FALSE,
                 !.tracks = IF s.stream = "null" THEN @ ELSE FALSE,
                 !.stream = "null",
                 !.bg = "null",
                 !.bgCap = FALSE,
                 !.cam = FALSE,
                 !.dets = EmptyList]
  ELSE [s EXCEPT !.tracks = IF s.stream = "null" THEN @ ELSE FALSE,
                 !.stream = "null",
                 !.ivl = "null",
                 !.cam = FALSE,
                 !.dets = EmptyList]

\* The cleanup the detection effect returned, if it returned one.
DetectionCleanupKeepsTimeout(v, s) ==
  IF ~s.cleanup THEN s
  ELSE IF v = "resched"
  THEN [s EXCEPT !.cont = FALSE, !.cleanup = FALSE]
  ELSE [s EXCEPT !.ivl = IF @ = "null" THEN "null" ELSE "dead", !.cleanup = FALSE]
DetectionCleanup(v, s) ==
  IF ~s.cleanup THEN s
  ELSE IF v = "resched"
  THEN [s EXCEPT !.tmo = FALSE, !.cont = FALSE, !.cleanup = FALSE]
  ELSE [s EXCEPT !.tmo = FALSE,
                 !.ivl = IF @ = "null" THEN "null" ELSE "dead",
                 !.cleanup = FALSE]

\* The body of the detection effect, for a render that saw cameraActive = cam
\* and mode = m.
DetectionEffectIgnoresCamera(v, s, cam, m) ==
  IF m # "live" THEN s
  ELSE IF v = "resched"
  THEN [s EXCEPT !.cont = TRUE, !.tmo = TRUE, !.cleanup = TRUE]
  ELSE [s EXCEPT !.tmo = TRUE, !.ivl = "live", !.cleanup = TRUE]
DetectionEffect(v, s, cam, m) ==
  IF ~(cam /\ m = "live") THEN s
  ELSE IF v = "resched"
  THEN [s EXCEPT !.cont = TRUE, !.tmo = TRUE, !.cleanup = TRUE]
  ELSE [s EXCEPT !.tmo = TRUE, !.ivl = "live", !.cleanup = TRUE]

\* The body of the mode effect; startCamera() runs up to its await.
ModeEffect(v, s, m) ==
  IF m = "live" THEN [s EXCEPT !.gum = @ + 1] ELSE StopCamera(v, s)

\* The commit that follows setMode(m) in a click handler: the render sees the
\* cameraActive of the moment; both effects' cleanups run, then both bodies;
\* stopCamera's setCameraActive(false) causes one more render, in which the
\* detection effect runs again when cameraActive changed.
CommitMode(v, s, m) ==
  LET c0 == s.cam
      s1 == DetectionCleanup(v, StopCamera(v, s))
      s2 == DetectionEffect(v, ModeEffect(v, s1, m), c0, m)
  IN IF c0 THEN DetectionEffect(v, DetectionCleanup(v, s2), FALSE, m) ELSE s2

\* The detection effect's dependency list.
Deps ==
  [cam |-> cameraActive,
   lpt |-> IF variant = "interval" THEN lastProcessTime ELSE 0]


\* ------------------------------------------------------------ captureAndDetect
\* videoRef, canvasRef and processCanvasRef point at elements of the live
\* page, which is mounted exactly while mode is 'live'.
RefsMissing == mode # "live"
\* processingRef.current, the in-flight guard
GuardBusyNever == FALSE
GuardBusy == processingRef
\* if (!backgroundRef.current) return      (self-rescheduling revision only)
GuardNoBackgroundNever == FALSE
GuardNoBackground == variant = "resched" /\ backgroundRef = "null"

\* The synchronous part of captureAndDetect, up to `await toBlob`.
CaptureOutcome ==
  IF RefsMissing \/ GuardBusy THEN "returned"
  ELSE IF GuardNoBackground THEN "waiting"
  ELSE "started"

CaptureAndDetect ==
  /\ last' = CaptureOutcome
  /\ IF CaptureOutcome # "started"
     THEN UNCHANGED <<processingRef, isProcessing, liveCycles, preprocessedFrame>>
     ELSE /\ processingRef' = TRUE
          /\ isProcessing' = TRUE
          /\ liveCycles' = Append(liveCycles, "blob")
          /\ preprocessedFrame' = IF variant = "resched" THEN "mask" ELSE preprocessedFrame

\* A timer callback: `if (continuousDetectionRef.current) captureAndDetect()`
\* in the self-rescheduling revision, `captureAndDetect()` in the interval one.
TimerCalls == variant = "interval" \/ continuousDetectionRef

TimerCallback ==
  /\ Len(liveCycles) < MaxCycles
  /\ IF TimerCalls THEN CaptureAndDetect
     ELSE /\ last' = "none"
          /\ UNCHANGED <<processingRef, isProcessing, liveCycles, preprocessedFrame>>
  /\ UNCHANGED <<maskVars, fnVars, variant, mode, detections, error, imagePreview, isLoading,
                 cameraActive, lastProcessTime, backgroundCaptured, showPreprocessing,
                 backgroundRef, continuousDetectionRef, streamRef, tracksLive, intervalRef,
                 gumPending, committed, effCleanup, uploads, readers>>

\* The effect's setTimeout(..., 1000) fires.
InitTimeoutFires ==
  /\ initTimeout
  /\ initTimeout' = FALSE
  /\ reschedTimers' = reschedTimers
  /\ TimerCallback

\* A setTimeout(..., 100) of captureAndDetect's finally fires.
ReschedTimerFires ==
  /\ reschedTimers > 0
  /\ reschedTimers' = reschedTimers - 1
  /\ initTimeout' = initTimeout
  /\ TimerCallback

\* The setInterval timer fires; it stays set.
IntervalFires ==
  /\ intervalRef = "live"
  /\ UNCHANGED <<initTimeout, reschedTimers>>
  /\ TimerCallback

\* toBlob calls back: the cycle goes on to fetch().
LiveBlobDone(i) ==
  /\ liveCycles[i] = "blob"
  /\ liveCycles' = [liveCycles EXCEPT ![i] = "fetch"]
  /\ last' = "none"
  /\ UNCHANGED <<maskVars, fnVars, variant, mode, detections, error, imagePreview, isLoading,
                 cameraActive, lastProcessTime, isProcessing, backgroundCaptured,
                 showPreprocessing, preprocessedFrame, backgroundRef, processingRef,
                 continuousDetectionRef, streamRef, tracksLive, intervalRef, gumPending,
                 initTimeout, reschedTimers, committed, effCleanup, uploads, readers>>

\* finally: whether the next capture is scheduled (ok: the try block ended
\* without an exception).
ReschedulesOnlyOnSuccess(ok) == variant = "resched" /\ continuousDetectionRef /\ ok
Reschedules(ok) == variant = "resched" /\ continuousDetectionRef

\* catch (err) { setError(err.message) }: what the catch leaves in detections
CatchClears(d) == EmptyList
CatchKeeps(d) == d

LiveFinallyOnSuccess(ok) ==
  /\ processingRef' = IF ok THEN FALSE ELSE processingRef
  /\ isProcessing' = FALSE
  /\ IF Reschedules(ok)
     THEN reschedTimers < MaxTimers /\ reschedTimers' = reschedTimers + 1
     ELSE reschedTimers' = reschedTimers
LiveFinally(ok) ==
  /\ processingRef' = FALSE
  /\ isProcessing' = FALSE
  /\ IF Reschedules(ok)
     THEN reschedTimers < MaxTimers /\ reschedTimers' = reschedTimers + 1
     ELSE reschedTimers' = reschedTimers

\* fetch resolves with a 2xx status and a body that parses.
LiveResponseOk(i, p, t) ==
  /\ liveCycles[i] = "fetch"
  /\ liveCycles' = RemoveAt(liveCycles, i)
  /\ detections' = OrEmpty(p)
  /\ error' = "null"
  /\ lastProcessTime' = t
  /\ LiveFinally(TRUE)
  /\ last' = "live:ok"
  /\ UNCHANGED <<maskVars, fnVars, variant, mode, imagePreview, isLoading, cameraActive,
                 backgroundCaptured, showPreprocessing, preprocessedFrame,
                 backgroundRef, continuousDetectionRef, streamRef, tracksLive, intervalRef,
                 gumPending, initTimeout, committed, effCleanup, uploads, readers>>

\* fetch rejects, answers with a non-2xx status, or the body does not parse.
LiveResponseFails(i, k) ==
  /\ liveCycles[i] = "fetch"
  /\ liveCycles' = RemoveAt(liveCycles, i)
  /\ detections' = CatchKeeps(detections)
  /\ error' = ErrMessage(k)
  /\ LiveFinally(FALSE)
  /\ last' = "live:failed"
  /\ UNCHANGED <<maskVars, fnVars, variant, mode, imagePreview, isLoading, cameraActive,
                 lastProcessTime, backgroundCaptured, showPreprocessing,
                 preprocessedFrame, backgroundRef, continuousDetectionRef, streamRef, tracksLive,
                 intervalRef, gumPending, initTimeout, committed, effCleanup, uploads,
                 readers>>


\* ------------------------------------------------------------ camera
\* getUserMedia resolves: the stream is kept when the <video> is mounted.
CameraGranted ==
  /\ gumPending > 0
  /\ gumPending' = gumPending - 1
  /\ IF RefsMissing
     THEN UNCHANGED <<streamRef, tracksLive, cameraActive, error>>
     ELSE streamRef' = "stream" /\ tracksLive' = TRUE /\ cameraActive' = TRUE /\ error' = "null"
  /\ last' = "none"
  /\ UNCHANGED <<maskVars, fnVars, variant, mode, detections, imagePreview, isLoading, lastProcessTime,
                 isProcessing, backgroundCaptured, showPreprocessing, preprocessedFrame,
                 backgroundRef, processingRef, continuousDetectionRef, intervalRef,
                 liveCycles, initTimeout, reschedTimers, committed, effCleanup,
                 uploads, readers>>

\* getUserMedia rejects.
CameraRefused ==
  /\ gumPending > 0
  /\ gumPending' = gumPending - 1
  /\ error' = CameraDenied
  /\ last' = "none"
  /\ UNCHANGED <<maskVars, fnVars, variant, mode, detections, imagePreview, isLoading, cameraActive,
                 lastProcessTime, isProcessing, backgroundCaptured, showPreprocessing,
                 preprocessedFrame, backgroundRef, processingRef,
                 continuousDetectionRef, streamRef, tracksLive, intervalRef, liveCycles,
                 initTimeout, reschedTimers, committed, effCleanup, uploads, readers>>

\* The render that follows state set in a promise continuation
\* (setCameraActive(true), setLastProcessTime): the detection effect runs
\* again when one of its dependencies changed.
Render ==
  /\ variant \in LiveVariants
  /\ Deps # committed
  /\ SetSession(DetectionEffect(variant, DetectionCleanup(variant, Session),
                                cameraActive, mode))
  /\ committed' = Deps
  /\ last' = "none"
  /\ UNCHANGED <<maskVars, fnVars, variant, mode, error, imagePreview, isLoading, lastProcessTime,
                 isProcessing, showPreprocessing, preprocessedFrame, processingRef,
                 liveCycles, reschedTimers, uploads, readers>>

\* ------------------------------------------------------------ mode buttons
\* setMode(m) in a click handler, and the commit it causes.
SetMode(m) ==
  /\ mode' = m
  /\ committed' = [cam |-> FALSE,
                   lpt |-> IF variant = "interval" THEN lastProcessTime ELSE 0]
  /\ last' = "none"
  /\ UNCHANGED <<maskVars, fnVars, variant, error, isLoading, lastProcessTime, isProcessing,
                 showPreprocessing, preprocessedFrame, processingRef, liveCycles,
                 reschedTimers, uploads, readers>>

\* "Live Camera Feed"
ClickLive ==
  /\ variant \in LiveVariants
  /\ mode = "select"
  /\ gumPending < MaxGum
  /\ SetSession(CommitMode(variant, Session, "live"))
  /\ imagePreview' = imagePreview
  /\ SetMode("live")

\* "Upload Image"
ClickImage ==
  /\ variant \in LiveVariants
  /\ mode = "select"
  /\ SetSession(CommitMode(variant, Session, "image"))
  /\ imagePreview' = imagePreview
  /\ SetMode("image")

\* "Back to selection" of the live page: onClick={() => setMode('select')}
BackTargetImage == "image"
BackTarget == "select"

BackFromLive ==
  /\ variant \in LiveVariants
  /\ mode = "live"
  /\ SetSession(CommitMode(variant, Session, BackTarget))
  /\ imagePreview' = imagePreview
  /\ SetMode(BackTarget)

\* "Back to selection" of the upload page: setMode, setImagePreview(null),
\* setDetections([])
BackFromImage ==
  /\ variant \in LiveVariants
  /\ mode = "image"
  /\ SetSession(CommitMode(variant, [Session EXCEPT !.dets = EmptyList], "select"))
  /\ imagePreview' = 0
  /\ SetMode("select")

\* ------------------------------------------------------------ live page buttons
\* captureBackground; the button is rendered once a render saw cameraActive.
CaptureBackground ==
  /\ variant = "resched"
  /\ mode = "live"
  /\ cameraActive /\ committed.cam
  /\ backgroundRef' = "frame"
  /\ backgroundCaptured' = TRUE
  /\ showPreprocessing' = TRUE
  /\ last' = "none"
  /\ UNCHANGED <<maskVars, fnVars, variant, mode, detections, error, imagePreview, isLoading,
                 cameraActive, lastProcessTime, isProcessing, preprocessedFrame,
                 processingRef, continuousDetectionRef, streamRef, tracksLive, intervalRef,
                 gumPending, liveCycles, initTimeout, reschedTimers, committed,
                 effCleanup, uploads, readers>>

\* ------------------------------------------------------------ image upload
\* setDetections([]) at the start of handleImageUpload: the X-ray revision
\* only (line 763).
ClearsOnSelectAlways(v) == TRUE
ClearsOnSelect(v) == v = "xray"

\* The first await of handleImageUpload: the image load in the
\* self-rescheduling revision, fetch in the other two.
FirstPhase(v) == IF v = "resched" THEN "load" ELSE "fetch"

\* handleImageUpload, up to its first await.  The file input is rendered
\* while no preview is shown.
HandleImageUpload(f) ==
  /\ mode = "image"
  /\ imagePreview = 0
  /\ Len(uploads) < MaxUploads
  /\ isLoading' = TRUE
  /\ error' = "null"
  /\ detections' = IF ClearsOnSelect(variant) THEN EmptyList ELSE detections
  /\ readers' = readers \cup {f}
  /\ uploads' = Append(uploads, [file |-> f, phase |-> FirstPhase(variant)])
  /\ last' = "upload:start"
  /\ UNCHANGED <<maskVars, fnVars, variant, mode, imagePreview, cameraActive, lastProcessTime,
                 isProcessing, backgroundCaptured, showPreprocessing,
                 preprocessedFrame, backgroundRef, processingRef,
                 continuousDetectionRef, streamRef, tracksLive, intervalRef, gumPending,
                 liveCycles, initTimeout, reschedTimers, committed, effCleanup>>

\* reader.onload: setImagePreview(e.target.result)
ReaderLoaded(f) ==
  /\ f \in readers
  /\ readers' = readers \ {f}
  /\ imagePreview' = f
  /\ last' = "none"
  /\ UNCHANGED <<maskVars, fnVars, variant, mode, detections, error, isLoading, cameraActive,
                 lastProcessTime, isProcessing, backgroundCaptured, showPreprocessing,
                 preprocessedFrame, backgroundRef, processingRef,
                 continuousDetectionRef, streamRef, tracksLive, intervalRef, gumPending,
                 liveCycles, initTimeout, reschedTimers, committed, effCleanup,
                 uploads>>

UploadUnchanged ==
  UNCHANGED <<maskVars, fnVars, variant, mode, imagePreview, cameraActive, lastProcessTime,
              isProcessing, backgroundCaptured, showPreprocessing, preprocessedFrame,
              backgroundRef, processingRef, continuousDetectionRef, streamRef, tracksLive,
              intervalRef, gumPending, liveCycles, initTimeout, reschedTimers,
              committed, effCleanup, readers>>

\* img.onload: the handler draws the image, masks it and goes on to fetch().
\* (toBlob's callback, the await between the two, changes no state and is
\* folded into this step.)
ImageLoaded(i) ==
  /\ uploads[i].phase = "load"
  /\ uploads' = [uploads EXCEPT ![i].phase = "fetch"]
  /\ last' = "none"
  /\ UNCHANGED <<detections, error, isLoading>>
  /\ UploadUnchanged

\* img.onerror: the promise rejects with an Event, which has no message.
ImageLoadFails(i) ==
  /\ uploads[i].phase = "load"
  /\ uploads' = RemoveAt(uploads, i)
  /\ detections' = CatchKeeps(detections)
  /\ error' = NoMessage
  /\ isLoading' = FALSE
  /\ last' = "none"
  /\ UploadUnchanged

UploadResponseOk(i, p) ==
  /\ uploads[i].phase = "fetch"
  /\ p \in Payloads(uploads[i].file)
  /\ uploads' = RemoveAt(uploads, i)
  /\ detections' = OrEmpty(p)
  /\ error' = error
  /\ isLoading' = FALSE
  /\ last' = "upload:ok"
  /\ UploadUnchanged

UploadResponseFails(i, k) ==
  /\ uploads[i].phase = "fetch"
  /\ uploads' = RemoveAt(uploads, i)
  /\ detections' = CatchKeeps(detections)
  /\ error' = ErrMessage(k)
  /\ isLoading' = FALSE
  /\ last' = "upload:failed"
  /\ UploadUnchanged

\* "Upload New Image" / "Upload New X-Ray"
UploadNew ==
  /\ mode = "image"
  /\ imagePreview # 0
  /\ imagePreview' = 0
  /\ detections' = EmptyList
  /\ error' = IF variant = "xray" THEN "null" ELSE error
  /\ last' = "none"
  /\ UNCHANGED <<maskVars, fnVars, variant, mode, isLoading, cameraActive, lastProcessTime,
                 isProcessing, backgroundCaptured, showPreprocessing,
                 preprocessedFrame, backgroundRef, processingRef,
                 continuousDetectionRef, streamRef, tracksLive, intervalRef, gumPending,
                 liveCycles, initTimeout, reschedTimers, committed, effCleanup,
                 uploads, readers>>

\* ------------------------------------------------------------ specification
Next ==
  \/ InitTimeoutFires
  \/ ReschedTimerFires
  \/ IntervalFires
  \/ \E i \in 1..Len(liveCycles) : LiveBlobDone(i)
  \/ \E i \in 1..Len(liveCycles), p \in Payloads(0), t \in ProcessTimes :
       LiveResponseOk(i, p, t)
  \/ \E i \in 1..Len(liveCycles), k \in Failures : LiveResponseFails(i, k)
  \/ CameraGranted
  \/ CameraRefused
  \/ Render
  \/ ClickLive
  \/ ClickImage
  \/ BackFromLive
  \/ BackFromImage
  \/ CaptureBackground
  \/ \E f \in Files : HandleImageUpload(f)
  \/ \E f \in Files : ReaderLoaded(f)
  \/ \E i \in 1..Len(uploads) : ImageLoaded(i)
  \/ \E i \in 1..Len(uploads) : ImageLoadFails(i)
  \/ \E i \in 1..Len(uploads), p \in Payloads(0) \cup UNION {Payloads(f) : f \in Files} :
       UploadResponseOk(i, p)
  \/ \E i \in 1..Len(uploads), k \in Failures : UploadResponseFails(i, k)
  \/ UploadNew

Spec == Init /\ [][Next]_vars


\* ------------------------------------------------------------ applyBackgroundSubtraction
\* The function is a loop over the bytes of the canvas; it is modelled one
\* iteration per step, on rasters of up to MaxPixels pixels.
MaxPixels == 2

AbsSigned(x) == x
Abs(x) == IF x < 0 THEN -x ELSE x
Max(a, b) == IF a > b THEN a ELSE b

\* if (maxDiff > BACKGROUND_THRESHOLD)
IsForegroundInclusive(maxDiff) == maxDiff >= BACKGROUND_THRESHOLD
IsForeground(maxDiff) == maxDiff > BACKGROUND_THRESHOLD

\* One iteration of `for (let i = 0; i < current.length; i += 4)`; the
\* arrays are 0-based in the source and 1-based here.
MaskedPixel(current, background, i) ==
  LET diffR == Abs(current[i + 1] - background[i + 1])
      diffG == Abs(current[i + 2] - background[i + 2])
      diffB == Abs(current[i + 3] - background[i + 3])
      maxDiff == Max(diffR, Max(diffG, diffB))
      v == IF IsForeground(maxDiff) THEN 255 ELSE 0
  IN [current EXCEPT ![i + 1] = v, ![i + 2] = v, ![i + 3] = v, ![i + 4] = 255]

\* The whole loop, from index i on: what applyBackgroundSubtraction leaves
\* in currentData.data.
RECURSIVE MaskLoop(_, _, _)
MaskLoop(current, background, i) ==
  IF i < Len(current)
  THEN MaskLoop(MaskedPixel(current, background, i), background, i + 4)
  ELSE current

\* Sample channel values: they give differences of 0, 1, 30, 31 and 255.
ChannelSamples == {0, 30, 31, 255}
AlphaSamples == {0, 255}
FramePixels ==
  {<<r, g, b, a>> : r \in ChannelSamples, g \in ChannelSamples,
                    b \in ChannelSamples, a \in AlphaSamples}
BackgroundPixels ==
  {<<r, g, b, 255>> : r \in ChannelSamples, g \in ChannelSamples, b \in ChannelSamples}
\* The pixels around the freely chosen one: equal in frame and background,
\* or as far apart as bytes can be.
FillerPairs == {<<<<0, 0, 0, 255>>, <<0, 0, 0, 255>>>>,
                <<<<255, 255, 255, 0>>, <<0, 0, 0, 255>>>>}

\* The raster of n pixels that holds px at pixel k and fill elsewhere.
Raster(n, k, px, fill) ==
  [j \in 1..(4 * n) |->
     IF (j - 1) \div 4 = k THEN px[((j - 1) % 4) + 1] ELSE fill[((j - 1) % 4) + 1]]

\* applyBackgroundSubtraction is entered: currentData = ctx.getImageData(...)
InitMask ==
  /\ variant = "resched"
  /\ Mounted
  /\ \E n \in 1..MaxPixels, k \in 0..(MaxPixels - 1), f \in FramePixels,
        b \in BackgroundPixels, fill \in FillerPairs :
       /\ k < n
       /\ (n = 1 => fill[1] = fill[2])
       /\ maskFrame = Raster(n, k, f, fill[1])
       /\ maskBackground = Raster(n, k, b, fill[2])
  /\ maskCurrent = maskFrame
  /\ maskI = 0
  /\ maskDone = FALSE
  /\ EdgeIdle /\ OverlayIdle /\ CropIdle /\ TimelineIdle /\ LoopIdle /\ CameraIdle

AppUnchanged ==
  UNCHANGED <<variant, mode, detections, error, imagePreview, isLoading, cameraActive,
              lastProcessTime, isProcessing, backgroundCaptured, showPreprocessing,
              preprocessedFrame, backgroundRef, processingRef, continuousDetectionRef,
              streamRef, tracksLive, intervalRef, gumPending, liveCycles, initTimeout,
              reschedTimers, committed, effCleanup, uploads, readers, last>>

MaskStep ==
  /\ ~maskDone
  /\ maskI < Len(maskCurrent)
  /\ maskCurrent' = MaskedPixel(maskCurrent, maskBackground, maskI)
  /\ maskI' = maskI + 4
  /\ UNCHANGED <<maskFrame, maskBackground, maskDone>>
  /\ UNCHANGED fnVars
  /\ AppUnchanged

\* ctx.putImageData(currentData, 0, 0)
MaskPut ==
  /\ ~maskDone
  /\ maskI >= Len(maskCurrent)
  /\ maskDone' = TRUE
  /\ UNCHANGED <<maskFrame, maskBackground, maskCurrent, maskI>>
  /\ UNCHANGED fnVars
  /\ AppUnchanged

NextMask == MaskStep \/ MaskPut

SpecMask == InitMask /\ [][NextMask]_vars


\* ------------------------------------------------------------ processImageToBWMask
\* The function is modelled on rasters of up to MaxEdgeWidth x MaxEdgeHeight
\* pixels: the grayscale pass as one step, then one interior pixel per step.
MaxEdgeWidth == 4
MaxEdgeHeight == 3

\* Math.round(0.299 * r + 0.587 * g + 0.114 * b), in thousandths
Gray(r, g, b) == (299 * r + 587 * g + 114 * b + 500) \div 1000

\* The first pass: one grayscale byte per pixel of data.
GrayscaleOf(data) ==
  [k \in 1..(Len(data) \div 4) |->
     Gray(data[4 * (k - 1) + 1], data[4 * (k - 1) + 2], data[4 * (k - 1) + 3])]

\* r > 60 && g > 40 && b > 20 && r > g && r > b && Math.abs(r - g) > 15
IsSkinLike(r, g, b) ==
  r > 60 /\ g > 40 /\ b > 20 /\ r > g /\ r > b /\ Abs(r - g) > 15

\* Math.sqrt(gx * gx + gy * gy) > EDGE_GRADIENT_THRESHOLD, for integers
IsEdge(gx, gy) == gx * gx + gy * gy > EDGE_GRADIENT_THRESHOLD * EDGE_GRADIENT_THRESHOLD

EdgePixelInPlace(data, grayscale, width, x, y) ==
  LET idx == y * width + x
      pixelIdx == idx * 4
      gray(k) == Gray(data[4 * k + 1], data[4 * k + 2], data[4 * k + 3])
      gx == gray(idx + 1) - gray(idx - 1)
      gy == gray(idx + width) - gray(idx - width)
      isForeground ==
        IsEdge(gx, gy) \/ IsSkinLike(data[pixelIdx + 1], data[pixelIdx + 2], data[pixelIdx + 3])
      v == IF isForeground THEN 255 ELSE 0
  IN [data EXCEPT ![pixelIdx + 1] = v, ![pixelIdx + 2] = v,
                  ![pixelIdx + 3] = v, ![pixelIdx + 4] = 255]

\* The body of the inner loop for pixel (x, y); grayscale and data are
\* 0-based in the source and 1-based here.
EdgePixel(data, grayscale, width, x, y) ==
  LET idx == y * width + x
      pixelIdx == idx * 4
      gx == grayscale[idx + 1 + 1] - grayscale[idx - 1 + 1]
      gy == grayscale[idx + width + 1] - grayscale[idx - width + 1]
      r == data[pixelIdx + 1]
      g == data[pixelIdx + 2]
      b == data[pixelIdx + 3]
      isForeground == IsEdge(gx, gy) \/ IsSkinLike(r, g, b)
      v == IF isForeground THEN 255 ELSE 0
  IN [data EXCEPT ![pixelIdx + 1] = v, ![pixelIdx + 2] = v,
                  ![pixelIdx + 3] = v, ![pixelIdx + 4] = 255]

\* Sample colours: greys 20 and 21 apart, black, a skin tone, two colours
\* on either side of the r - g > 15 limit, and a transparent pixel.
EdgeColours ==
  {<<128, 128, 128, 255>>, <<148, 148, 148, 255>>, <<149, 149, 149, 255>>,
   <<0, 0, 0, 255>>, <<200, 120, 80, 255>>, <<100, 85, 50, 255>>,
   <<100, 84, 50, 255>>, <<0, 0, 0, 0>>}
EdgeSizes == {<<2, 2>>, <<3, 3>>, <<MaxEdgeWidth, MaxEdgeHeight>>}

\* The raster of n pixels of colour c, but colour d at pixel k (k = n: nowhere).
Spotted(n, c, d, k) ==
  [j \in 1..(4 * n) |->
     IF (j - 1) \div 4 = k THEN d[((j - 1) % 4) + 1] ELSE c[((j - 1) % 4) + 1]]

\* processImageToBWMask is entered: imageData = ctx.getImageData(...)
InitEdge ==
  /\ variant = "resched"
  /\ Mounted
  /\ MaskIdle /\ OverlayIdle /\ CropIdle /\ TimelineIdle /\ LoopIdle /\ CameraIdle
  /\ \E size \in EdgeSizes, c \in EdgeColours, d \in EdgeColours :
       \E k \in 0..(size[1] * size[2]) :
         /\ (k = size[1] * size[2] => d = c)
         /\ (k < size[1] * size[2] => d # c)
         /\ edge = [width |-> size[1], height |-> size[2],
                    input |-> Spotted(size[1] * size[2], c, d, k),
                    data |-> Spotted(size[1] * size[2], c, d, k),
                    grayscale |-> <<>>, x |-> 0, y |-> 0, stage |-> "entered"]

EdgeUnchanged ==
  /\ UNCHANGED <<maskVars, overlay, crop, timeline, loop, camera>>
  /\ AppUnchanged

\* for (let i = 0; i < data.length; i += 4) grayscale[i / 4] = ...
EdgeGrayscale ==
  /\ edge.stage = "entered"
  /\ edge' = [edge EXCEPT !.grayscale = GrayscaleOf(edge.data),
                          !.x = 1, !.y = 1, !.stage = "loop"]
  /\ EdgeUnchanged

\* One pass of the inner loop, and the loop headers that follow it.
EdgeStep ==
  /\ edge.stage = "loop"
  /\ edge.y < edge.height - 1
  /\ edge.x < edge.width - 1
  /\ edge' = [edge EXCEPT
                !.data = EdgePixel(edge.data, edge.grayscale, edge.width, edge.x, edge.y),
                !.x = IF edge.x + 1 < edge.width - 1 THEN edge.x + 1 ELSE 1,
                !.y = IF edge.x + 1 < edge.width - 1 THEN edge.y ELSE edge.y + 1]
  /\ EdgeUnchanged

\* The loops are over: ctx.putImageData(imageData, 0, 0)
EdgePut ==
  /\ edge.stage = "loop"
  /\ (edge.y >= edge.height - 1 \/ edge.x >= edge.width - 1)
  /\ edge' = [edge EXCEPT !.stage = "done"]
  /\ EdgeUnchanged

NextEdge == EdgeGrayscale \/ EdgeStep \/ EdgePut

SpecEdge == InitEdge /\ [][NextEdge]_vars


\* ------------------------------------------------------------ renderBoundingBoxes
\* The function maps the detection list to overlay elements; it is modelled
\* one callback per step, on lists of up to MaxDetections detections.
MaxDetections == 2

\* A JavaScript number, or what is not one: `undefined` read from a missing
\* field and the NaN that arithmetic makes of it.
Num(v) == [def |-> TRUE, val |-> v]
NotANumber == [def |-> FALSE, val |-> 0]
\* a - b
Sub(a, b) == IF a.def /\ b.def THEN Num(a.val - b.val) ELSE NotANumber

\* Percentages are kept exactly, as multiples of 1/PercentScale percent:
\* (v / 640) * 100 percent is v * 100 * 32 / 640 = 5 v of them.
PercentScale == 32
Percent(a) == IF a.def THEN Num((a.val * 100 * PercentScale) \div 640) ELSE NotANumber

\* A detection: the keys the object has, and their values.  bbox and box
\* are arrays of numbers, x1..y2 are numbers.
Det(keys, bbox, box, xy) ==
  [keys |-> keys, bbox |-> bbox, box |-> box,
   x1 |-> IF "x1" \in keys THEN xy[1] ELSE 0,
   y1 |-> IF "y1" \in keys THEN xy[2] ELSE 0,
   x2 |-> IF "x2" \in keys THEN xy[3] ELSE 0,
   y2 |-> IF "y2" \in keys THEN xy[4] ELSE 0]
\* det.x1 and the like: undefined when the key is missing
Field(det, key, v) == IF key \in det.keys THEN Num(v) ELSE NotANumber
\* bbox[k], for the destructuring `const [x1, y1, x2, y2] = bbox`
Item(arr, k) == IF k <= Len(arr) THEN arr[k] ELSE NotANumber
Nums(seq) == [k \in 1..Len(seq) |-> Num(seq[k])]

\* det.bbox || det.box || [det.x1, det.y1, det.x2, det.y2]
BboxOf(det) ==
  IF "bbox" \in det.keys THEN Nums(det.bbox)
  ELSE IF "box" \in det.keys THEN Nums(det.box)
  ELSE <<Field(det, "x1", det.x1), Field(det, "y1", det.y1),
         Field(det, "x2", det.x2), Field(det, "y2", det.y2)>>

\* width / height of the rectangle: (x2 - x1), (y2 - y1)
ExtentFromOrigin(a, b) == b
Extent(a, b) == Sub(b, a)

\* What the map callback returns: null, or the <div> with its style.
NoElement ==
  [drawn |-> FALSE, left |-> NotANumber, top |-> NotANumber,
   width |-> NotANumber, height |-> NotANumber]
RenderBox(det) ==
  LET bbox == BboxOf(det)
      x1 == Item(bbox, 1)
      y1 == Item(bbox, 2)
      x2 == Item(bbox, 3)
      y2 == Item(bbox, 4)
  IN IF Len(bbox) < 4 THEN NoElement
     ELSE [drawn |-> TRUE,
           left |-> Percent(x1),
           top |-> Percent(y1),
           width |-> Percent(Extent(x1, x2)),
           height |-> Percent(Extent(y1, y2))]

\* Sample boxes, with four, five, three, two and no coordinates.
BoxSamples ==
  {<<100, 100, 300, 300>>, <<0, 0, 640, 640>>, <<320, 160, 480, 639, 1>>,
   <<100, 100, 300>>, <<10, 20>>, <<>>}
\* Sample detections: a box under `bbox`, under `box`, as x1..y2 fields (all
\* four, three of them, none), and a short `bbox` beside a full `box`.
DetSamples ==
  {Det({"bbox"}, b, <<>>, <<0, 0, 0, 0>>) : b \in BoxSamples}
  \cup {Det({"box"}, <<>>, b, <<0, 0, 0, 0>>) : b \in BoxSamples}
  \cup {Det(k, <<>>, <<>>, <<100, 100, 300, 300>>) :
          k \in {{"x1", "y1", "x2", "y2"}, {"x1", "y1", "x2"}, {}}}
  \cup {Det({"bbox", "box"}, <<100, 100, 300>>, <<100, 100, 300, 300>>, <<0, 0, 0, 0>>)}

\* renderBoundingBoxes is entered with a detection list.
InitOverlay ==
  /\ variant = "resched"
  /\ Mounted
  /\ MaskIdle /\ EdgeIdle /\ CropIdle /\ TimelineIdle /\ LoopIdle /\ CameraIdle
  /\ \E n \in 1..MaxDetections :
       \E list \in [1..n -> DetSamples] :
         overlay = [detections |-> list, rendered |-> <<>>, stage |-> "entered"]

OverlayUnchanged ==
  /\ UNCHANGED <<maskVars, edge, crop, timeline, loop, camera>>
  /\ AppUnchanged

\* One call of the map callback.
OverlayMap ==
  /\ overlay.stage = "entered"
  /\ Len(overlay.rendered) < Len(overlay.detections)
  /\ overlay' = [overlay EXCEPT
                   !.rendered = Append(@, RenderBox(overlay.detections[Len(@) + 1]))]
  /\ OverlayUnchanged

\* map returns the array of elements.
OverlayReturn ==
  /\ overlay.stage = "entered"
  /\ Len(overlay.rendered) = Len(overlay.detections)
  /\ overlay' = [overlay EXCEPT !.stage = "done"]
  /\ OverlayUnchanged

NextOverlay == OverlayMap \/ OverlayReturn

SpecOverlay == InitOverlay /\ [][NextOverlay]_vars


\* ------------------------------------------------------------ filling the 640x640 canvas
\* The part of captureAndDetect between the guards and fetch, and the part
\* of handleImageUpload between the image load and fetch: the source
\* rectangle that drawImage scales onto the canvas, toBlob, the request.
\* Widths and heights in pixels; MaxSide is the largest sampled.
MaxSide == 1280
CropSides == {0, 480, 640, 641, MaxSide}

\* videoAspect > 1 for videoAspect = w / h: Infinity when h is 0 and w is
\* not, NaN (never above 1) when both are 0.
AspectAboveOne(w, h) == IF h = 0 THEN w > 0 ELSE w > h

\* sx, sy, sWidth, sHeight of captureAndDetect; sx and sy are kept doubled
\* (sx2 = 2 sx), since the code halves odd differences.
VideoRect(w, h) ==
  IF AspectAboveOne(w, h)
  THEN [sx2 |-> w - h, sy2 |-> 0, sWidth |-> h, sHeight |-> h]
  ELSE [sx2 |-> 0, sy2 |-> h - w, sWidth |-> w, sHeight |-> w]

\* sx, sy, sWidth, sHeight of captureBackground, doubled in the same way.
BackgroundRectWhole(w, h) == [sx2 |-> 0, sy2 |-> 0, sWidth |-> w, sHeight |-> h]
BackgroundRect(w, h) ==
  IF AspectAboveOne(w, h)
  THEN [sx2 |-> w - h, sy2 |-> 0, sWidth |-> h, sHeight |-> h]
  ELSE [sx2 |-> 0, sy2 |-> h - w, sWidth |-> w, sHeight |-> w]

\* ctx.drawImage(img, 0, 0, 640, 640): the source is the whole image.
ImageRect(w, h) == [sx2 |-> 0, sy2 |-> 0, sWidth |-> w, sHeight |-> h]

\* drawImage returns without painting when the source rectangle is empty.
Paints(rect) == rect.sWidth > 0 /\ rect.sHeight > 0

\* The guards are passed (video, background), or the image has loaded
\* (image).
InitCrop ==
  /\ variant = "resched"
  /\ Mounted
  /\ MaskIdle /\ EdgeIdle /\ OverlayIdle /\ TimelineIdle /\ LoopIdle /\ CameraIdle
  /\ \E src \in {"video", "background", "image"}, w \in CropSides, h \in CropSides :
       /\ (src = "image" => w > 0 /\ h > 0)
       /\ crop = [source |-> src, width |-> w, height |-> h, rect |-> <<>>,
                  painted |-> FALSE, stage |-> "entered"]

CropUnchanged ==
  /\ UNCHANGED <<maskVars, edge, overlay, timeline, loop, camera>>
  /\ AppUnchanged

\* The crop is computed and drawImage fills the canvas.
CropDraw ==
  /\ crop.stage = "entered"
  /\ LET rect == IF crop.source = "video"
                 THEN VideoRect(crop.width, crop.height)
                 ELSE IF crop.source = "background"
                 THEN BackgroundRect(crop.width, crop.height)
                 ELSE ImageRect(crop.width, crop.height)
     IN crop' = [crop EXCEPT !.rect = rect, !.painted = Paints(rect), !.stage = "drawn"]
  /\ CropUnchanged

\* The canvas is masked and toBlob calls back.
CropToBlob ==
  /\ crop.stage = "drawn"
  /\ crop.source # "background"
  /\ crop' = [crop EXCEPT !.stage = "blob"]
  /\ CropUnchanged

\* fetch(API_URL, { method: 'POST', body: formData })
CropFetch ==
  /\ crop.stage = "blob"
  /\ crop' = [crop EXCEPT !.stage = "sent"]
  /\ CropUnchanged

\* captureBackground: backgroundRef.current = ctx.getImageData(0, 0, 640, 640)
CropStore ==
  /\ crop.stage = "drawn"
  /\ crop.source = "background"
  /\ crop' = [crop EXCEPT !.stage = "stored"]
  /\ CropUnchanged

NextCrop == CropDraw \/ CropToBlob \/ CropFetch \/ CropStore

SpecCrop == InitCrop /\ [][NextCrop]_vars


\* ------------------------------------------------------------ the interval revision on a clock
\* The detection effect and captureAndDetect of the interval revision while
\* the camera stays active and the live page stays shown, with time: each
\* timer and the request in flight carry the ms left until they fire (-1:
\* not set).  The component's other state plays no part here.

\* How long a request may take, in ms: shorter and longer than the delays.
RequestTimes == ProcessTimes \cup {300, 2400}

\* Math.max(MIN_DETECTION_INTERVAL, lastProcessTime + PROCESSING_BUFFER)
IntervalPeriod(lpt) == Max(MIN_DETECTION_INTERVAL, lpt + PROCESSING_BUFFER)

\* The effect's cleanup and body: both timers are set anew.
ArmTimers(t) ==
  [t EXCEPT !.timeout = INITIAL_DELAY,
            !.interval = IntervalPeriod(t.lastProcessTime),
            !.period = IntervalPeriod(t.lastProcessTime)]

\* captureAndDetect called from a timer: it returns when a cycle is in
\* flight, else a cycle starts whose request will take d ms.  sinceStart is
\* the time since the last start (counted up to MIN_DETECTION_INTERVAL),
\* gap the time between the last two starts.
TimedCapture(t, d) ==
  IF t.request # -1 THEN t
  ELSE [t EXCEPT !.request = d, !.elapsed = 0, !.gap = t.sinceStart, !.sinceStart = 0]

\* The effect has just run for cameraActive && mode === 'live'.
InitTimeline ==
  /\ variant = "interval"
  /\ Mounted
  /\ MaskIdle /\ EdgeIdle /\ OverlayIdle /\ CropIdle /\ LoopIdle /\ CameraIdle
  /\ timeline = [timeout |-> INITIAL_DELAY, interval |-> IntervalPeriod(0),
                 period |-> IntervalPeriod(0), request |-> -1, elapsed |-> 0,
                 lastProcessTime |-> 0, sinceStart |-> -1, gap |-> -1]

TimelineUnchanged ==
  /\ UNCHANGED <<maskVars, edge, overlay, crop, loop, camera>>
  /\ AppUnchanged

\* setTimeout(() => captureAndDetect(), 1000) fires.
TimelineTimeout ==
  /\ timeline.timeout = 0
  /\ \E d \in RequestTimes :
       timeline' = TimedCapture([timeline EXCEPT !.timeout = -1], d)
  /\ TimelineUnchanged

\* setInterval(() => captureAndDetect(), period) fires, and runs on.
TimelineInterval ==
  /\ timeline.interval = 0
  /\ \E d \in RequestTimes :
       timeline' = TimedCapture([timeline EXCEPT !.interval = timeline.period], d)
  /\ TimelineUnchanged

\* The response arrives with a 2xx status: setLastProcessTime(Date.now() -
\* startTime); the effect runs again when the value changed.
TimelineResponseOk ==
  /\ timeline.request = 0
  /\ LET t == [timeline EXCEPT !.request = -1, !.lastProcessTime = timeline.elapsed]
     IN timeline' = IF timeline.elapsed # timeline.lastProcessTime THEN ArmTimers(t) ELSE t
  /\ TimelineUnchanged

\* The request fails: catch and finally, lastProcessTime unchanged.
TimelineResponseFails ==
  /\ timeline.request = 0
  /\ timeline' = [timeline EXCEPT !.request = -1]
  /\ TimelineUnchanged

\* Time passes until the next timer or the response is due.
TimelineAdvance ==
  /\ timeline.timeout # 0 /\ timeline.interval # 0 /\ timeline.request # 0
  /\ LET due == {timeline.timeout, timeline.interval, timeline.request} \ {-1}
         d == CHOOSE m \in due : \A o \in due : m <= o
         less(v) == IF v = -1 THEN -1 ELSE v - d
     IN timeline' = [timeline EXCEPT
                      !.timeout = less(@),
                      !.interval = less(@),
                      !.request = less(@),
                      !.elapsed = IF timeline.request = -1 THEN @ ELSE @ + d,
                      !.sinceStart = IF @ = -1 THEN -1
                                     ELSE IF @ + d > MIN_DETECTION_INTERVAL
                                     THEN MIN_DETECTION_INTERVAL ELSE @ + d]
  /\ TimelineUnchanged

NextTimeline ==
  \/ TimelineTimeout
  \/ TimelineInterval
  \/ TimelineResponseOk
  \/ TimelineResponseFails
  \/ TimelineAdvance

SpecTimeline == InitTimeline /\ [][NextTimeline]_vars


\* ------------------------------------------------------------ the self-rescheduling revision on a clock
\* The detection effect and captureAndDetect of the self-rescheduling
\* revision during one live session, with time: the 1000 ms timer, the
\* 100 ms timers and the request in flight carry the ms left until they
\* fire (-1: not set).  processingRef is true exactly while a request is
\* counted down.

\* How long a request of this session may take, in ms.
LoopRequestTimes == {40, 800}

\* What is left, when the session's effect runs, of a request that an
\* earlier live session sent (-1: there is none).
StaleRequestTimes == {-1, 300, 950, 1200}

\* captureAndDetect: it returns when a cycle is in flight or no background
\* is stored, else a cycle starts whose request will take d ms.  wait is
\* the time since the last request resolved (counted up to
\* RESCHEDULE_DELAY) at the last start.
LoopCapture(l, d) ==
  IF l.request # -1 THEN l
  ELSE IF ~l.background THEN l
  ELSE [l EXCEPT !.request = d, !.wait = l.sinceResolved]

\* The callback of both kinds of timer: if (continuousDetectionRef.current)
\* captureAndDetect().
LoopCallback(l, d) == IF l.cont THEN LoopCapture(l, d) ELSE l

\* The effect has just run for cameraActive && mode === 'live'; a request
\* of an earlier session may still be in flight.
InitLoop ==
  /\ variant = "resched"
  /\ Mounted
  /\ MaskIdle /\ EdgeIdle /\ OverlayIdle /\ CropIdle /\ TimelineIdle /\ CameraIdle
  /\ \E r \in StaleRequestTimes :
       loop = [timeout |-> INITIAL_DELAY, resched |-> {}, request |-> r,
               background |-> FALSE, cont |-> TRUE, sinceResolved |-> -1,
               wait |-> -1]

LoopUnchanged ==
  /\ UNCHANGED <<maskVars, edge, overlay, crop, timeline, camera>>
  /\ AppUnchanged

\* The user clicks Capture Background.
LoopCaptureBackground ==
  /\ loop.cont /\ ~loop.background
  /\ loop' = [loop EXCEPT !.background = TRUE]
  /\ LoopUnchanged

\* The effect's 1000 ms timer fires.
LoopTimeout ==
  /\ loop.timeout = 0
  /\ \E d \in LoopRequestTimes :
       loop' = LoopCallback([loop EXCEPT !.timeout = -1], d)
  /\ LoopUnchanged

\* A 100 ms timer set by finally fires.
LoopReschedule ==
  /\ 0 \in loop.resched
  /\ \E d \in LoopRequestTimes :
       loop' = LoopCallback([loop EXCEPT !.resched = @ \ {0}], d)
  /\ LoopUnchanged

\* The request resolves, with or without an error: finally resets
\* processingRef and, while the loop is on, sets a 100 ms timer.
LoopResolved ==
  /\ loop.request = 0
  /\ loop' = [loop EXCEPT !.request = -1, !.sinceResolved = 0,
                          !.resched = IF loop.cont THEN @ \cup {RESCHEDULE_DELAY} ELSE @]
  /\ LoopUnchanged

\* The user clicks Back: the effect's cleanup clears the 1000 ms timer and
\* the flag, stopCamera drops the background.
LoopLeave ==
  /\ loop.cont
  /\ loop' = [loop EXCEPT !.cont = FALSE, !.timeout = -1, !.background = FALSE]
  /\ LoopUnchanged

\* Time passes until the next timer or the response is due.
LoopAdvance ==
  /\ LET due == ({loop.timeout, loop.request} \cup loop.resched) \ {-1}
     IN /\ due # {} /\ 0 \notin due
        /\ LET d == CHOOSE m \in due : \A o \in due : m <= o
               less(v) == IF v = -1 THEN -1 ELSE v - d
           IN loop' = [loop EXCEPT
                        !.timeout = less(@),
                        !.request = less(@),
                        !.resched = {less(v) : v \in @},
                        !.sinceResolved = IF @ = -1 THEN -1
                                          ELSE IF @ + d > RESCHEDULE_DELAY
                                          THEN RESCHEDULE_DELAY ELSE @ + d]
  /\ LoopUnchanged

NextLoop ==
  \/ LoopCaptureBackground
  \/ LoopTimeout
  \/ LoopReschedule
  \/ LoopResolved
  \/ LoopLeave
  \/ LoopAdvance

SpecLoop == InitLoop /\ [][NextLoop]_vars


\* ------------------------------------------------------------ the camera streams
\* startCamera, stopCamera and the mode effect, with each MediaStream that
\* getUserMedia hands out told apart: streams are numbered 1, 2, ... as they
\* are obtained, streamRef holds a number (0: null) and running is the set
\* of streams whose tracks have not been stopped.  Up to MaxStreams calls of
\* getUserMedia are followed.
MaxStreams == 3

\* stopCamera: the tracks of the stream in streamRef are stopped and the
\* ref is cleared; no other stream is touched.
StopStreams(c) ==
  [c EXCEPT !.running = IF c.streamRef # 0 THEN @ \ {c.streamRef} ELSE @,
            !.streamRef = 0]

\* The mode effect after setMode(m): the cleanup of the previous run calls
\* stopCamera, then the body calls startCamera (a getUserMedia call is
\* pending) or stopCamera.
ModeEffectStreams(c, m) ==
  LET c1 == StopStreams(c)
  IN IF m = "live"
     THEN [c1 EXCEPT !.mode = m, !.pending = @ + 1]
     ELSE [StopStreams(c1) EXCEPT !.mode = m]

\* The component has mounted with mode 'select'.
InitCamera ==
  /\ variant \in LiveVariants
  /\ Mounted
  /\ MaskIdle /\ EdgeIdle /\ OverlayIdle /\ CropIdle /\ TimelineIdle /\ LoopIdle
  /\ camera = [mode |-> "select", pending |-> 0, obtained |-> 0, streamRef |-> 0,
               running |-> {}]

CameraUnchanged ==
  /\ UNCHANGED <<maskVars, edge, overlay, crop, timeline, loop>>
  /\ AppUnchanged

\* A click on "Live Camera", "Upload Image" or "Back to selection".
CameraSetMode ==
  /\ \E m \in {"select", "live", "image"} :
       /\ (camera.mode = "select") # (m = "select")
       /\ (m = "live" => camera.obtained + camera.pending < MaxStreams)
       /\ camera' = ModeEffectStreams(camera, m)
  /\ CameraUnchanged

\* getUserMedia resolves with a new stream, its tracks live; startCamera
\* stores it if (videoRef.current), that is, while the live page is shown.
CameraResolves ==
  /\ camera.pending > 0
  /\ LET id == camera.obtained + 1
     IN camera' = [camera EXCEPT !.pending = @ - 1,
                                 !.obtained = id,
                                 !.running = @ \cup {id},
                                 !.streamRef = IF camera.mode = "live" THEN id ELSE @]
  /\ CameraUnchanged

\* getUserMedia rejects: no stream.
CameraRejects ==
  /\ camera.pending > 0
  /\ camera' = [camera EXCEPT !.pending = @ - 1]
  /\ CameraUnchanged

NextCamera == CameraSetMode \/ CameraResolves \/ CameraRejects

SpecCamera == InitCamera /\ [][NextCamera]_vars


\* ------------------------------------------------------------ claims
CallOutcomes == {"returned", "waiting", "started"}
\* Live mode is active: the live page is shown, the camera runs and the
\* detection effect has run for it.
LiveActive == mode = "live" /\ cameraActive /\ committed.cam
FetchCount(cycles) == Cardinality({i \in 1..Len(cycles) : cycles[i] = "fetch"})
AllPayloads == Payloads(0) \cup UNION {Payloads(f) : f \in Files}

\* C1: in live mode at most one capture cycle is between its start and the
\* resolution of its request, in both live revisions and under every
\* interleaving of the 1000 ms timeout, the 100 ms timeouts and the interval.
C1_AtMostOneInFlight == Len(liveCycles) <= 1

\* C1 witness: a timer called captureAndDetect while the request of the
\* running cycle was unresolved, and the call returned at the guard.
C1_TriggerRejected ==
  last = "returned" /\ mode = "live" /\ liveCycles = <<"fetch">> /\ processingRef

\* C2 (as claimed): once a background is stored while live mode is active, a
\* detection request is eventually issued.  A request can only come from a
\* cycle in flight or from a pending timer, so the claim needs one of them
\* in every such state.
C2_LoopAliveAfterBackground ==
  (variant = "resched" /\ LiveActive /\ backgroundRef # "null")
    => (initTimeout \/ reschedTimers > 0 \/ liveCycles # <<>>)

\* C3: a call of captureAndDetect made while no background is stored starts
\* no cycle (so issues no request) and leaves the detection list and the
\* in-flight guard as they were.
C3_NoBackgroundNoCycle ==
  [][(variant = "resched" /\ backgroundRef = "null" /\ last' \in CallOutcomes)
       => (/\ liveCycles' = liveCycles
           /\ detections' = detections
           /\ processingRef' = processingRef)]_vars

\* C3 witness: captureAndDetect was called in live mode with the guard free
\* and returned because no background is stored.
C3_CalledWithoutBackground ==
  last = "waiting" /\ backgroundRef = "null" /\ ~processingRef /\ liveCycles = <<>>

\* C4 (as claimed): while the mode is not live, captureAndDetect is not
\* called, no cycle starts and no request is issued.
C4_NoRequestAfterLeaving ==
  [][mode # "live"
       => (/\ last' \notin CallOutcomes
           /\ Len(liveCycles') <= Len(liveCycles)
           /\ FetchCount(liveCycles') <= FetchCount(liveCycles))]_vars

\* C4 (amended): while the mode is not live, captureAndDetect is not called
\* and no cycle starts; a request is issued then only by a cycle that had
\* started before and was awaiting toBlob.
C4_NoCycleAfterLeaving ==
  [][mode # "live"
       => (/\ last' \notin CallOutcomes
           /\ Len(liveCycles') <= Len(liveCycles)
           /\ (FetchCount(liveCycles') > FetchCount(liveCycles)
                 => \E i \in 1..Len(liveCycles) :
                      liveCycles[i] = "blob" /\ liveCycles'[i] = "fetch"))]_vars

\* C4 witness: live mode was left while a 100 ms timeout was pending; the
\* continuation flag is false.
C4_TimerOutlivesLiveMode ==
  mode = "select" /\ reschedTimers > 0 /\ ~continuousDetectionRef

\* C5 (as claimed): a response that puts detections on the upload page while
\* a preview is shown carries the detections of the file shown.
C5_ResponseMatchesPreview ==
  [][(/\ last' \in {"upload:ok", "live:ok"}
      /\ mode' = "image"
      /\ imagePreview' # 0
      /\ IsList(detections') /\ detections'.len > 0)
       => detections'.src = imagePreview']_vars

\* C6: a non-2xx answer to a live request sets the error to 'Detection
\* failed' and leaves the detection list as it was; while the live page is
\* shown the list changes only when a successful response is applied.
C6_LiveFailureKeepsList ==
  [][/\ (\E i \in 1..Len(liveCycles) : LiveResponseFails(i, "http"))
          => (error' = "Detection failed" /\ detections' = detections)
     /\ (mode = "live" /\ mode' = "live" /\ detections' # detections)
          => last' \in {"live:ok", "upload:ok"}]_vars

\* C6 witness: a live request failed with a non-2xx status and the list of
\* the earlier successful cycle is still there.
C6_ListSurvivesLiveFailure ==
  /\ last = "live:failed" /\ mode = "live"
  /\ error = "Detection failed" /\ detections = ArrayOf(0)

C8_FailureKeepsLoop ==
  [][\A k \in Failures :
       (\E i \in 1..Len(liveCycles) : LiveResponseFails(i, k))
         => (/\ error' = ErrMessage(k)
             /\ ~processingRef'
             /\ Len(liveCycles') = Len(liveCycles) - 1
             /\ LiveActive
                  => IF variant = "resched"
                     THEN reschedTimers' = reschedTimers + 1 /\ continuousDetectionRef'
                     ELSE intervalRef' = "live")]_vars

\* C8 witness: a live request failed on the network while live mode was
\* active, and a 100 ms timeout is pending.
C8_RescheduledAfterFailure ==
  /\ variant = "resched" /\ last = "live:failed" /\ LiveActive
  /\ error = "Failed to fetch" /\ reschedTimers > 0 /\ ~processingRef

\* C9 (as claimed): a 2xx response leaves the response's array in the
\* detection state when `detections` is an array, and the empty list when
\* it is absent or not an array.
C9_DetectionsAlwaysList ==
  [][\A p \in AllPayloads :
       ((\E i \in 1..Len(liveCycles), t \in ProcessTimes : LiveResponseOk(i, p, t))
        \/ (\E i \in 1..Len(uploads) : UploadResponseOk(i, p)))
         => detections' = IF IsList(p) THEN p ELSE EmptyList]_vars

\* C10: when applyBackgroundSubtraction has run, every pixel is
\* (255,255,255,255) if one of its channels differs from the background's by
\* more than 30, and (0,0,0,255) otherwise.
C10_MaskIsThresholded ==
  maskDone =>
    /\ Len(maskCurrent) = Len(maskFrame)
    /\ \A k \in 0..((Len(maskFrame) \div 4) - 1) :
         LET far(c) == \/ maskFrame[4 * k + c] - maskBackground[4 * k + c] > 30
                       \/ maskBackground[4 * k + c] - maskFrame[4 * k + c] > 30
             v == IF far(1) \/ far(2) \/ far(3) THEN 255 ELSE 0
         IN /\ maskCurrent[4 * k + 1] = v
            /\ maskCurrent[4 * k + 2] = v
            /\ maskCurrent[4 * k + 3] = v
            /\ maskCurrent[4 * k + 4] = 255

\* C10 witness: a raster of two pixels was masked; one pixel differs from
\* the background by exactly 30 in its largest channel and came out black
\* with its alpha raised from 0 to 255.
C10_ThirtyIsBlack ==
  /\ maskDone /\ Len(maskFrame) = 8
  /\ \E k \in 0..1 :
       /\ Abs(maskFrame[4 * k + 1] - maskBackground[4 * k + 1]) = 30
       /\ Abs(maskFrame[4 * k + 2] - maskBackground[4 * k + 2]) < 30
       /\ Abs(maskFrame[4 * k + 3] - maskBackground[4 * k + 3]) = 30
       /\ maskFrame[4 * k + 4] = 0
       /\ maskCurrent[4 * k + 1] = 0 /\ maskCurrent[4 * k + 4] = 255

\* C11: background subtraction is symmetric: the mask the function left for
\* frame A against background B is the mask it computes for frame B against
\* background A.
C11_MaskIsSymmetric ==
  maskDone =>
    /\ Len(maskBackground) = Len(maskFrame)
    /\ maskCurrent = MaskLoop(maskBackground, maskFrame, 0)

\* C11 witness: a two-pixel frame was masked against a background it
\* differs from; one pixel came out white because the frame is brighter
\* there, the other because the background is.
C11_SwappedPairMasked ==
  /\ maskDone /\ Len(maskFrame) = 8
  /\ maskFrame[1] - maskBackground[1] > 30
  /\ maskBackground[5] - maskFrame[5] > 30
  /\ maskCurrent[1] = 255 /\ maskCurrent[5] = 255

\* The raster is of one colour.
IsUniform(data) ==
  \A j \in 1..Len(data) : data[j] = data[((j - 1) % 4) + 1]

\* C12 (as claimed): when processImageToBWMask has run on an image of one
\* colour that fails the skin-tone predicate, every pixel of the raster,
\* border included, is black.  (Stated for rasters that have interior
\* pixels, as the 640x640 canvas has.)
C12_UniformImageAllBlack ==
  (/\ edge.stage = "done"
   /\ edge.width >= 3 /\ edge.height >= 3
   /\ IsUniform(edge.input)
   /\ ~IsSkinLike(edge.input[1], edge.input[2], edge.input[3]))
    => \A k \in 0..(edge.width * edge.height - 1) :
         /\ edge.data[4 * k + 1] = 0
         /\ edge.data[4 * k + 2] = 0
         /\ edge.data[4 * k + 3] = 0

\* The coordinates a detection supplies for its box.
Supplied(det) ==
  IF "bbox" \in det.keys THEN Len(det.bbox)
  ELSE IF "box" \in det.keys THEN Len(det.box)
  ELSE Cardinality(det.keys \cap {"x1", "y1", "x2", "y2"})

\* C13: for a detection whose box is [x1, y1, x2, y2] the rectangle has
\* left = x1/640*100 %, top = y1/640*100 %, width = (x2-x1)/640*100 % and
\* height = (y2-y1)/640*100 %; for [100, 100, 300, 300] that is 15.625 %,
\* 15.625 %, 31.25 % and 31.25 % (15625 and 31250 thousandths).
C13_OverlayRectangle ==
  overlay.stage = "done" =>
    \A i \in 1..Len(overlay.detections) :
      LET det == overlay.detections[i]
          b == BboxOf(det)
          e == overlay.rendered[i]
      IN (Supplied(det) >= 4) =>
           /\ e.drawn
           /\ e.left.def /\ e.top.def /\ e.width.def /\ e.height.def
           /\ e.left.val * 640 = b[1].val * 100 * PercentScale
           /\ e.top.val * 640 = b[2].val * 100 * PercentScale
           /\ e.width.val * 640 = (b[3].val - b[1].val) * 100 * PercentScale
           /\ e.height.val * 640 = (b[4].val - b[2].val) * 100 * PercentScale
           /\ (<<b[1].val, b[2].val, b[3].val, b[4].val>> = <<100, 100, 300, 300>>
                 => /\ e.left.val * 1000 = 15625 * PercentScale
                    /\ e.top.val * 1000 = 15625 * PercentScale
                    /\ e.width.val * 1000 = 31250 * PercentScale
                    /\ e.height.val * 1000 = 31250 * PercentScale)

\* C13 witness: the list [{bbox: [100, 100, 300, 300]}] was rendered.
C13_ExampleRendered ==
  /\ overlay.stage = "done"
  /\ Len(overlay.detections) = 1
  /\ overlay.detections[1].keys = {"bbox"}
  /\ overlay.detections[1].bbox = <<100, 100, 300, 300>>
  /\ overlay.rendered[1].drawn

\* C14 (as claimed): a detection that supplies fewer than four box
\* coordinates, under whichever key, gets no rectangle; the others of the
\* list get theirs.
C14_ShortBoxSkipped ==
  overlay.stage = "done" =>
    /\ Len(overlay.rendered) = Len(overlay.detections)
    /\ \A i \in 1..Len(overlay.detections) :
         overlay.rendered[i].drawn = (Supplied(overlay.detections[i]) >= 4)

\* C15: the step that takes the mode away from live leaves the tracks of
\* the held stream stopped, streamRef and backgroundRef null, cameraActive
\* and backgroundCaptured false and the detection list empty.
C15_LeavingLiveReleases ==
  [][(mode = "live" /\ mode' # "live")
       => (/\ ~tracksLive'
           /\ streamRef' = "null"
           /\ backgroundRef' = "null"
           /\ ~cameraActive'
           /\ ~backgroundCaptured'
           /\ detections' = EmptyList)]_vars

\* C15 witness: live mode was left while a cycle of the session, started
\* with camera and background, was still in flight; camera, background and
\* list are gone.
C15_SessionCleared ==
  /\ variant = "resched" /\ mode = "select" /\ liveCycles # <<>>
  /\ preprocessedFrame = "mask"
  /\ streamRef = "null" /\ ~tracksLive /\ backgroundRef = "null"
  /\ ~cameraActive /\ ~backgroundCaptured /\ detections = EmptyList

\* C16 (as claimed): when handleImageUpload has started on a file, the
\* detection list is empty and no preview is shown.  (Stated for selections
\* made when the preview of every earlier file had loaded.)
C16_SelectionStartsClean ==
  [][(last' = "upload:start" /\ readers = {})
       => (detections' = EmptyList /\ imagePreview' = 0)]_vars

\* C17: in the revisions that have a mode, it starts as select and changes
\* only along select -> live, select -> image, live -> select and
\* image -> select.
C17_ModeTransitions ==
  /\ (variant \in LiveVariants => mode = "select")
  /\ [][(variant \in LiveVariants /\ mode' # mode)
          => <<mode, mode'>> \in {<<"select", "live">>, <<"select", "image">>,
                                  <<"live", "select">>, <<"image", "select">>}]_vars

\* C17 witness: the upload page is shown after a live session that got a
\* response: the mode went select, live, select, image.
C17_ImageAfterLive ==
  variant = "interval" /\ mode = "image" /\ lastProcessTime > 0

Min(a, b) == IF a < b THEN a ELSE b

\* C18 (as claimed): the raster made of an uploaded image of width w and
\* height h is taken from the centred square of side min(w, h).
C18_UploadCentreCropped ==
  (crop.source = "image" /\ crop.stage # "entered")
    => LET side == Min(crop.width, crop.height)
       IN crop.rect = [sx2 |-> crop.width - side, sy2 |-> crop.height - side,
                       sWidth |-> side, sHeight |-> side]

\* C19 (as claimed): a capture cycle that finds the video without readable
\* dimensions sends no request.
C19_NoDimensionsNoRequest ==
  (crop.source = "video" /\ (crop.width = 0 \/ crop.height = 0))
    => crop.stage # "sent"

\* Uploads whose request has been sent.
SentUploads(ups) == Cardinality({i \in 1..Len(ups) : ups[i].phase = "fetch"})

\* C20 (as claimed): when the image load of an upload fails, no request is
\* sent for it, isLoading ends false and the error state holds a message
\* that the page can show.
C20_LoadFailureShowsMessage ==
  [][(\E i \in 1..Len(uploads) : ImageLoadFails(i))
       => (/\ SentUploads(uploads') = SentUploads(uploads)
           /\ ~isLoading'
           /\ error' \notin {"null", NoMessage})]_vars

\* C21 (as claimed): in the interval revision, while the camera stays
\* active, two successive capture cycles start at least
\* MIN_DETECTION_INTERVAL ms apart.
C21_ThreeSecondsApart ==
  timeline.gap = -1 \/ timeline.gap >= MIN_DETECTION_INTERVAL

\* C22: when getUserMedia rejects, the error becomes the camera-denied
\* message and cameraActive stays false; cameraActive becomes true only
\* when a getUserMedia call resolves, and a capture cycle starts only while
\* cameraActive is true on the live page: so none starts in a session
\* whose camera was denied.
C22_DeniedCameraNoCycle ==
  [][/\ CameraRefused
          => (/\ error' = "Camera access denied. Please allow camera permissions."
              /\ (~cameraActive => ~cameraActive')
              /\ liveCycles' = liveCycles)
     /\ (~cameraActive /\ cameraActive')
          => (gumPending' = gumPending - 1 /\ streamRef' = "stream")
     /\ last' = "started" => (cameraActive /\ mode = "live")
     /\ Len(liveCycles') > Len(liveCycles) => last' = "started"]_vars

\* C22 witness: the live page is shown, the permission was denied, and
\* nothing is armed or in flight.
C22_CameraDenied ==
  /\ mode = "live" /\ gumPending = 0 /\ ~cameraActive
  /\ error = "Camera access denied. Please allow camera permissions."
  /\ ~initTimeout /\ intervalRef # "live" /\ reschedTimers = 0 /\ liveCycles = <<>>

\* C23 (as claimed): in the self-rescheduling revision a capture cycle that
\* follows a resolved request starts no sooner than 100 ms after that
\* request resolved.
C23_CycleWaitsForReschedule ==
  loop.wait = -1 \/ loop.wait >= RESCHEDULE_DELAY

\* Pixel k (0-based) of a raster, as <<r, g, b, a>>.
PixelAt(data, k) == <<data[4 * k + 1], data[4 * k + 2], data[4 * k + 3], data[4 * k + 4]>>

\* The decision the claim states for pixel (x, y), read off the input
\* raster alone.
WhiteByInput(input, width, x, y) ==
  LET px(k) == PixelAt(input, k)
      gray(k) == Gray(px(k)[1], px(k)[2], px(k)[3])
      idx == y * width + x
      gx == gray(idx + 1) - gray(idx - 1)
      gy == gray(idx + width) - gray(idx - width)
      R == px(idx)[1]
      G == px(idx)[2]
      B == px(idx)[3]
  IN \/ gx * gx + gy * gy > 400
     \/ (R > 60 /\ G > 40 /\ B > 20 /\ R > G /\ R > B /\ R - G > 15)

\* C24: when processImageToBWMask is done, every interior pixel is opaque
\* white if its gradient over the input's grayscale neighbours exceeds 20
\* (gx*gx + gy*gy > 400) or its input colour is skin-like, and opaque black
\* otherwise: the decision is a function of the input raster alone.
C24_InteriorDecision ==
  edge.stage = "done" =>
    \A y \in 1..(edge.height - 2), x \in 1..(edge.width - 2) :
      PixelAt(edge.data, y * edge.width + x) =
        IF WhiteByInput(edge.input, edge.width, x, y)
        THEN <<255, 255, 255, 255>> ELSE <<0, 0, 0, 255>>

\* C24 witness: a raster with two interior pixels in a row is done, the
\* first one white by its gradient and the second one black although its
\* left neighbour was overwritten before it was decided.
C24_OverwrittenNeighbour ==
  /\ edge.stage = "done" /\ edge.width = 4 /\ edge.height = 3
  /\ PixelAt(edge.input, 5) = <<128, 128, 128, 255>>
  /\ PixelAt(edge.input, 6) = <<128, 128, 128, 255>>
  /\ PixelAt(edge.data, 5) = <<255, 255, 255, 255>>
  /\ PixelAt(edge.data, 6) = <<0, 0, 0, 255>>

\* C25: for a video frame of positive width w and height h, the source
\* rectangle of captureAndDetect and that of captureBackground are both the
\* centred square of side min(w, h), with sx = (w - side) / 2 and
\* sy = (h - side) / 2, and it lies inside the frame.
C25_SameCentredSquare ==
  (/\ crop.source \in {"video", "background"} /\ crop.stage # "entered"
   /\ crop.width > 0 /\ crop.height > 0)
    => LET side == IF crop.width < crop.height THEN crop.width ELSE crop.height
       IN /\ crop.rect = [sx2 |-> crop.width - side, sy2 |-> crop.height - side,
                          sWidth |-> side, sHeight |-> side]
          /\ crop.rect = VideoRect(crop.width, crop.height)
          /\ crop.rect = BackgroundRect(crop.width, crop.height)
          /\ crop.rect.sx2 >= 0 /\ crop.rect.sx2 + 2 * side <= 2 * crop.width
          /\ crop.rect.sy2 >= 0 /\ crop.rect.sy2 + 2 * side <= 2 * crop.height
          /\ (crop.rect.sx2 = 0 \/ crop.rect.sy2 = 0)

\* C25 witness: a background has been stored from a 641 x 480 frame,
\* cropped by 80.5 pixels on the left.
C25_BackgroundCropped ==
  /\ crop.source = "background" /\ crop.stage = "stored"
  /\ crop.width = 641 /\ crop.height = 480
  /\ crop.rect.sx2 = 161 /\ crop.rect.sWidth = 480 /\ crop.painted

\* C26 (as claimed): every stream whose tracks are running is the one held
\* in streamRef, and once the mode is not live and no getUserMedia call is
\* pending no stream is running.
C26_NoStreamWithoutHandle ==
  /\ camera.running \subseteq {camera.streamRef}
  /\ (camera.mode # "live" /\ camera.pending = 0) => camera.running = {}

\* C27 (as claimed): in the revision of handleImageUpload that the claim
\* cites, isLoading is true whenever the request of an upload has been sent
\* and has not resolved.
C27_LoadingWhileRequestPending ==
  (variant = "resched" /\ SentUploads(uploads) > 0) => isLoading

\* C28: processingRef is true only while a capture cycle is between its
\* start and the resolution of its request; the step that ends a cycle, with
\* a response or an exception, leaves it false; a call of captureAndDetect
\* that returns early leaves it, and the cycles in flight, as they were.
C28_GuardNeverSticks ==
  [][/\ processingRef' => liveCycles' # <<>>
     /\ Len(liveCycles') < Len(liveCycles) => ~processingRef'
     /\ last' \in {"returned", "waiting"}
          => (processingRef' = processingRef /\ liveCycles' = liveCycles)
     /\ last' = "started" => (~processingRef /\ processingRef')]_vars

\* C28 witness: a cycle has just ended with an exception and the guard is
\* open again.
C28_ResetAfterFailure ==
  last = "live:failed" /\ ~processingRef /\ liveCycles = <<>>

\* C29: in every state backgroundCaptured is true exactly when backgroundRef
\* holds a frame, and a frame is held only while mode is 'live';
\* captureBackground stores a frame and leaving the live page discards it.
C29_FlagMatchesBackground ==
  /\ (backgroundCaptured <=> backgroundRef # "null")
  /\ [][/\ backgroundCaptured' <=> backgroundRef' # "null"
        /\ backgroundRef' # "null" => mode' = "live"
        /\ CaptureBackground => (backgroundRef' = "frame" /\ backgroundCaptured')
        /\ (mode = "live" /\ mode' # "live") => backgroundRef' = "null"]_vars

\* C29 witness: a background was stored and used for a mask, and the live
\* page has been left: the frame and the flag are gone.
C29_BackgroundDiscarded ==
  /\ variant = "resched" /\ mode = "select" /\ preprocessedFrame = "mask"
  /\ backgroundRef = "null" /\ ~backgroundCaptured

\* C30 (as claimed): whenever live mode is entered, preprocessedFrame is
\* empty, so no mask of an earlier live session is shown in the new one.
C30_NoMaskFromEarlierSession ==
  [][(mode # "live" /\ mode' = "live") => preprocessedFrame' = "null"]_vars

====
